---- MODULE Spec2Model ----
(***************************************************************************)
(* Model of backup.py: the Deployment orchestrator that backs up and       *)
(* restores an AWX deployment (PostgreSQL dump + Kubernetes secrets) by    *)
(* issuing kubectl commands and reading/writing a tar archive.             *)
(*                                                                         *)
(* Strings are sequences of tokens (indivisible substrings), so that       *)
(* str.endswith, str.removeprefix and f-string concatenation are computed  *)
(* on the text and not assumed:  "awx-2-admin-password" is                 *)
(* <<"awx", "-", "2", "-", "admin-password">>.                             *)
(***************************************************************************)
EXTENDS Integers, Sequences, FiniteSets, TLC

VARIABLES
    awx,             \* cluster: metadata.name of the first awx resource
    secrets,         \* cluster: secret name -> secret JSON object
    db,              \* cluster: "absent", "empty" or the database contents
    dirs,            \* file system: directory name -> set of files in it
    tars,            \* file system: tar file name -> sequence of members
    phase,           \* "first" invocation, or "second" (restore after backup)
    pc,              \* position of the running process
    command,         \* args.command
    backup_name,     \* args.backup_name
    operator_name,   \* self.operator_name
    todo,            \* backup: secret names still to export
    members,         \* restore: archive members still to handle
    db_step,         \* recreate_db: index of the next database command
    current_secret,  \* recreate_secret: the merged object to apply
    log,             \* every command issued through run_k8s, with its exit code
    warnings,        \* member names printed as "Unknown backup file"
    exit_code,       \* the code passed to sys.exit by run_k8s
    opened,          \* restore: the archive file name passed to tarfile.open
    pre,             \* cluster state when the running process started
    origin           \* cluster state when the first process started

vars == <<awx, secrets, db, dirs, tars, phase, pc, command, backup_name,
          operator_name, todo, members, db_step, current_secret, log,
          warnings, exit_code, opened, pre, origin>>

cluster == <<awx, secrets, db>>
fsys == <<dirs, tars>>
args == <<command, backup_name>>

(***************************************************************************)
(* Bounds                                                                  *)
(***************************************************************************)
\* non-zero exit codes a command may return: 1..MaxRc
MaxRc == 2
\* longest hand-made archive offered to restore
MaxMembers == 2

(***************************************************************************)
(* Strings                                                                 *)
(***************************************************************************)
EndsWith(s, suffix) ==
    /\ Len(s) >= Len(suffix)
    /\ SubSeq(s, Len(s) - Len(suffix) + 1, Len(s)) = suffix

StartsWith(s, prefix) ==
    /\ Len(s) >= Len(prefix)
    /\ SubSeq(s, 1, Len(prefix)) = prefix

RemovePrefix(s, prefix) ==
    IF StartsWith(s, prefix) THEN SubSeq(s, Len(prefix) + 1, Len(s)) ELSE s

PathJoin(dir, file) == dir \o <<"/">> \o file

DumpFileName == <<"backup", ".dump">>

SecretFileName(secret_name) == secret_name \o <<"_secret.json">>

\* f"{self.operator_name}-postgres-configuration"
DbConfigurationName(op) == op \o <<"-", "postgres-configuration">>

\* f"{name}.tar"
TarName(name) == name \o <<".tar">>

(***************************************************************************)
(* JSON objects, files and archive members                                 *)
(***************************************************************************)
\* a secret as `kubectl get secret -o json` prints it; `other` stands for the
\* metadata that is not the name or the labels (annotations, owner references)
NoData == "<no data key>"

NoLabels == [has_labels |-> FALSE, has_part_of |-> FALSE, part_of |-> <<>>]
LabelsWithoutPartOf == [has_labels |-> TRUE, has_part_of |-> FALSE, part_of |-> <<>>]
PartOfLabel(value) == [has_labels |-> TRUE, has_part_of |-> TRUE, part_of |-> value]

SecretJson(name, labels, other, data) ==
    [name |-> name, labels |-> labels, other |-> other, data |-> data]

NullJson == SecretJson(<<>>, NoLabels, "", NoData)

EmptyFile == [kind |-> "empty", dump |-> "", json |-> NullJson]
DumpFile(contents) == [kind |-> "dump", dump |-> contents, json |-> NullJson]
JsonFile(json) == [kind |-> "json", dump |-> "", json |-> json]
TextFile == [kind |-> "text", dump |-> "", json |-> NullJson]

DirMember(name) == [name |-> name, type |-> "DIR", content |-> EmptyFile]
FileMember(name, content) == [name |-> name, type |-> "REG", content |-> content]

(***************************************************************************)
(* The clusters, backup names and archives the model explores              *)
(***************************************************************************)
Awx == <<"awx">>
Awx2 == <<"awx", "-", "2">>
OperatorNames == {Awx, Awx2}

AdminPassword(op) == op \o <<"-", "admin-password">>
EmptySecret == Awx \o <<"-", "empty">>
Token == <<"token">>

\* names of the secrets a namespace may hold, in the order kubectl lists them
SecretOrder ==
    << AdminPassword(Awx2), DbConfigurationName(Awx2), AdminPassword(Awx),
       EmptySecret, DbConfigurationName(Awx), Token >>

SecretUniverse == {SecretOrder[i] : i \in DOMAIN SecretOrder}

TokenLabels == {NoLabels, LabelsWithoutPartOf, PartOfLabel(<<>>)}

InitialSecret(name, token_labels) ==
    CASE name = AdminPassword(Awx2) ->
            SecretJson(name, PartOfLabel(Awx2), "m1", "data-awx-2-admin")
      [] name = DbConfigurationName(Awx2) ->
            SecretJson(name, PartOfLabel(Awx2), "m1", "data-awx-2-pg")
      [] name = AdminPassword(Awx) ->
            SecretJson(name, PartOfLabel(Awx), "m1", "data-awx-admin")
      [] name = EmptySecret ->
            SecretJson(name, PartOfLabel(Awx), "m1", NoData)
      [] name = DbConfigurationName(Awx) ->
            SecretJson(name, PartOfLabel(Awx), "m1", "data-awx-pg")
      [] OTHER ->
            SecretJson(name, token_labels, "m1", "data-token")

\* the namespace always holds both database-configuration secrets
OptionalSecrets == {AdminPassword(Awx2), AdminPassword(Awx), EmptySecret, Token}

InitialSecrets ==
    { [n \in ({DbConfigurationName(Awx), DbConfigurationName(Awx2)} \cup present)
          |-> InitialSecret(n, token_labels)] :
        present \in SUBSET OptionalSecrets, token_labels \in TokenLabels }

\* the secrets after the deployment has been re-bootstrapped: same names and
\* labels, new payload and new metadata
Drifted(secs) ==
    [n \in DOMAIN secs |->
        [secs[n] EXCEPT !.other = "m2",
                        !.data = IF @ = NoData THEN NoData ELSE "drifted"]]

BackupNames == { <<"n">>, <<"n", ".tar">>, <<"n", ".dump">>, <<"n", "_secret.json">> }

\* members of archives written elsewhere (from a deployment named awx)
ForeignPool ==
    { DirMember(<<"old">>),
      FileMember(PathJoin(<<"old">>, DumpFileName), DumpFile("D2")),
      FileMember(PathJoin(<<"old">>, SecretFileName(AdminPassword(Awx))),
                 JsonFile(SecretJson(AdminPassword(Awx), PartOfLabel(Awx),
                                     "m0", "data-old-admin"))),
      FileMember(PathJoin(<<"old">>, SecretFileName(Token)),
                 JsonFile(SecretJson(Token, LabelsWithoutPartOf,
                                     "m0", "data-old-token"))),
      FileMember(PathJoin(<<"old">>, <<"README">>), TextFile) }

Injective(seq) == \A i, j \in DOMAIN seq : seq[i] = seq[j] => i = j

ForeignArchives ==
    UNION { { a \in [1..k -> ForeignPool] : Injective(a) } : k \in 0..MaxMembers }

(***************************************************************************)
(* Finite maps (the file system)                                           *)
(***************************************************************************)
EmptyMap == [k \in {} |-> k]
Put(map, key, value) ==
    [k \in DOMAIN map \cup {key} |-> IF k = key THEN value ELSE map[k]]
Remove(map, key) == [k \in DOMAIN map \ {key} |-> map[k]]

(***************************************************************************)
(* Initial states: the program has been invoked with parsed arguments.     *)
(*  - a backup, in a directory that may hold a leftover working directory  *)
(*  - a restore of an archive written elsewhere                            *)
(***************************************************************************)
InitProcess ==
    /\ phase = "first"
    /\ pc = "get_awx"
    /\ operator_name = <<>>
    /\ todo = <<>>
    /\ members = <<>>
    /\ db_step = 1
    /\ current_secret = NullJson
    /\ log = <<>>
    /\ warnings = <<>>
    /\ exit_code = 0
    /\ opened = <<>>

InitCluster ==
    /\ awx \in OperatorNames
    /\ secrets \in InitialSecrets
    /\ db = "D1"
    /\ pre = [secrets |-> secrets, db |-> db]
    /\ origin = pre

InitBackup ==
    /\ command = "backup"
    /\ backup_name \in BackupNames
    /\ dirs \in {EmptyMap, Put(EmptyMap, backup_name, EmptyMap)}
    /\ tars = EmptyMap

InitRestore ==
    /\ command = "restore"
    /\ backup_name \in { <<"n">>, <<"n", ".tar">> }
    /\ dirs = EmptyMap
    /\ tars \in { Put(EmptyMap, <<"n", ".tar">>, a) : a \in ForeignArchives }

Init == InitCluster /\ InitProcess /\ (InitBackup \/ InitRestore)

(***************************************************************************)
(* Deployment.run_k8s: run kubectl; a non-zero exit code ends the process  *)
(* with that code.  rc is the exit code the command returned.              *)
(***************************************************************************)
ExitCodes == 0..MaxRc

\* the exit codes a command may return: it can only succeed when feasible
Outcomes(feasible) == IF feasible THEN ExitCodes ELSE ExitCodes \ {0}

Issued(verb, arg, rc) == [verb |-> verb, arg |-> arg, rc |-> rc]

\* run_k8s without the check of result.returncode
run_k8s_continues(verb, arg, rc, next_pc) ==
    /\ log' = Append(log, Issued(verb, arg, rc))
    /\ pc' = next_pc
    /\ exit_code' = exit_code

run_k8s(verb, arg, rc, next_pc) ==
    /\ log' = Append(log, Issued(verb, arg, rc))
    /\ IF rc # 0
       THEN pc' = "exited" /\ exit_code' = rc
       ELSE pc' = next_pc /\ exit_code' = exit_code

\* the status the operating system sees once the process has ended
ExitStatus ==
    CASE pc = "exited" -> exit_code
      [] pc = "crashed" -> 1
      [] OTHER -> 0

Terminated == pc \in {"exited", "crashed", "done"}

(***************************************************************************)
(* Deployment.__init__                                                     *)
(***************************************************************************)
GetAwx ==
    /\ pc = "get_awx"
    /\ \E rc \in ExitCodes :
        /\ run_k8s("get awx", <<>>, rc, "get_db_pod")
        /\ operator_name' = IF rc = 0 THEN awx ELSE operator_name
    /\ UNCHANGED <<cluster, fsys, args, phase, todo, members, db_step,
                   current_secret, warnings, opened, pre, origin>>

GetDbPod ==
    /\ pc = "get_db_pod"
    /\ \E rc \in ExitCodes : run_k8s("get pod", <<>>, rc, "get_db_configuration")
    /\ UNCHANGED <<cluster, fsys, args, phase, operator_name, todo, members,
                   db_step, current_secret, warnings, opened, pre, origin>>

GetDbConfiguration ==
    /\ pc = "get_db_configuration"
    /\ \E rc \in Outcomes(DbConfigurationName(operator_name) \in DOMAIN secrets) :
        run_k8s("get secret .data", DbConfigurationName(operator_name), rc,
                IF command = "backup" THEN "mkdir" ELSE "open_tar")
    /\ UNCHANGED <<cluster, fsys, args, phase, operator_name, todo, members,
                   db_step, current_secret, warnings, opened, pre, origin>>

(***************************************************************************)
(* Deployment.backup                                                       *)
(***************************************************************************)
\* os.mkdir raises FileExistsError when the path exists
Mkdir ==
    /\ pc = "mkdir"
    /\ IF backup_name \in DOMAIN dirs \cup DOMAIN tars
       THEN pc' = "crashed" /\ dirs' = dirs
       ELSE pc' = "pg_dump" /\ dirs' = Put(dirs, backup_name, EmptyMap)
    /\ UNCHANGED <<cluster, tars, args, phase, operator_name, todo, members,
                   db_step, current_secret, log, warnings, exit_code, opened, pre, origin>>

\* open(<name>/backup.dump, "wb") and then pg_dump writing into it
PgDump ==
    /\ pc = "pg_dump"
    /\ \E rc \in Outcomes(db # "absent") :
        /\ run_k8s("pg_dump", <<>>, rc, "get_secrets")
        /\ dirs' = [dirs EXCEPT ![backup_name] =
                      Put(@, DumpFileName,
                          IF rc = 0 THEN DumpFile(db) ELSE EmptyFile)]
    /\ UNCHANGED <<cluster, tars, args, phase, operator_name, todo, members,
                   db_step, current_secret, warnings, opened, pre, origin>>

\* kubectl get secrets -o jsonpath={.items[*].metadata.name}, then split()
SecretNames == SelectSeq(SecretOrder, LAMBDA n : n \in DOMAIN secrets)

GetSecrets ==
    /\ pc = "get_secrets"
    /\ \E rc \in ExitCodes :
        /\ run_k8s("get secrets", <<>>, rc, "backup_loop")
        /\ todo' = IF rc = 0 THEN SecretNames ELSE todo
    /\ UNCHANGED <<cluster, fsys, args, phase, operator_name, members,
                   db_step, current_secret, warnings, opened, pre, origin>>

\* if secret_name.endswith("postgres-configuration"): continue
SkippedByBackup(secret_name) == EndsWith(secret_name, <<"postgres-configuration">>)

BackupSkipSecret ==
    /\ pc = "backup_loop"
    /\ todo # <<>>
    /\ SkippedByBackup(Head(todo))
    /\ todo' = Tail(todo)
    /\ UNCHANGED <<cluster, fsys, args, phase, pc, operator_name, members,
                   db_step, current_secret, log, warnings, exit_code, opened, pre, origin>>

\* open(<name>/<secret>_secret.json, "w") and then kubectl get secret -o json
BackupGetSecret ==
    /\ pc = "backup_loop"
    /\ todo # <<>>
    /\ ~SkippedByBackup(Head(todo))
    /\ \E rc \in Outcomes(Head(todo) \in DOMAIN secrets) :
        /\ run_k8s("get secret json", Head(todo), rc, "backup_loop")
        /\ dirs' = [dirs EXCEPT ![backup_name] =
                      Put(@, SecretFileName(Head(todo)),
                          IF rc = 0 THEN JsonFile(secrets[Head(todo)])
                                    ELSE EmptyFile)]
        /\ todo' = IF rc = 0 THEN Tail(todo) ELSE todo
    /\ UNCHANGED <<cluster, tars, args, phase, operator_name, members,
                   db_step, current_secret, warnings, opened, pre, origin>>

\* sorted(os.listdir(name)): the file names a working directory can hold, in
\* the order of their text ("awx-..." < "backup.dump" < "token...")
ListDirOrder ==
    [i \in 1..(Len(SecretOrder) - 1) |-> SecretFileName(SecretOrder[i])]
        \o <<DumpFileName, SecretFileName(Token)>>

\* tar.add(name): the directory entry, then its files in sorted order
TarAdd(name, files) ==
    LET names == SelectSeq(ListDirOrder, LAMBDA f : f \in DOMAIN files)
    IN  <<DirMember(name)>>
          \o [i \in DOMAIN names |-> FileMember(PathJoin(name, names[i]), files[names[i]])]

\* tarfile.open(f"{name}.tar", "w"); tar.add(name); shutil.rmtree(name)
BackupTar ==
    /\ pc = "backup_loop"
    /\ todo = <<>>
    /\ tars' = Put(tars, TarName(backup_name), TarAdd(backup_name, dirs[backup_name]))
    /\ dirs' = Remove(dirs, backup_name)
    /\ pc' = "done"
    /\ UNCHANGED <<cluster, args, phase, operator_name, todo, members,
                   db_step, current_secret, log, warnings, exit_code, opened, pre, origin>>

(***************************************************************************)
(* Deployment.restore                                                      *)
(***************************************************************************)
\* name = f"{name}.tar", whatever the name ends in
RestoreName_always_appends(name) == name \o <<".tar">>

\* if not name.endswith(".tar"): name = f"{name}.tar"
RestoreName(name) == IF ~EndsWith(name, <<".tar">>) THEN name \o <<".tar">> ELSE name

\* tarfile.open(name) raises when the file does not exist
OpenTar ==
    /\ pc = "open_tar"
    /\ opened' = RestoreName(backup_name)
    /\ IF RestoreName(backup_name) \in DOMAIN tars
       THEN pc' = "restore_loop" /\ members' = tars[RestoreName(backup_name)]
       ELSE pc' = "crashed" /\ members' = members
    /\ UNCHANGED <<cluster, fsys, args, phase, operator_name, todo, db_step,
                   current_secret, log, warnings, exit_code, pre, origin>>

\* the branch of the loop body a member takes
MemberBranch(member) ==
    CASE EndsWith(member.name, <<".dump">>) -> "dump"
      [] EndsWith(member.name, <<"_secret.json">>) -> "secret"
      [] member.type # "DIR" -> "unknown"
      [] OTHER -> "skip"

\* tar.extractfile(member) is None for a directory, and `with None` raises;
\* json.loads raises on a file that holds no JSON
ExtractFails(member) ==
    \/ member.type = "DIR"
    \/ MemberBranch(member) = "secret" /\ member.content.kind # "json"

InLoop == pc = "restore_loop" /\ members # <<>>

ExtractCrash ==
    /\ InLoop
    /\ MemberBranch(Head(members)) \in {"dump", "secret"}
    /\ ExtractFails(Head(members))
    /\ pc' = "crashed"
    /\ UNCHANGED <<cluster, fsys, args, phase, operator_name, todo, members,
                   db_step, current_secret, log, warnings, exit_code, opened, pre, origin>>

RestoreDump ==
    /\ InLoop
    /\ MemberBranch(Head(members)) = "dump"
    /\ ~ExtractFails(Head(members))
    /\ pc' = "recreate_db"
    /\ db_step' = 1
    /\ UNCHANGED <<cluster, fsys, args, phase, operator_name, todo, members,
                   current_secret, log, warnings, exit_code, opened, pre, origin>>

\* old_secret["metadata"].get("labels", {}).get("app.kubernetes.io/part-of", None)
PartOf(old_secret) ==
    IF old_secret.labels.has_labels /\ old_secret.labels.has_part_of
    THEN [is_none |-> FALSE, value |-> old_secret.labels.part_of]
    ELSE [is_none |-> TRUE, value |-> <<>>]

\* `if old_operator_name is not None:`
Truthy_is_not_none(old_operator_name) == ~old_operator_name.is_none

\* `if old_operator_name:` -- None and "" are falsy
Truthy(old_operator_name) ==
    ~old_operator_name.is_none /\ old_operator_name.value # <<>>

\* f"{self.operator_name}{old_secret_name.removeprefix(old_operator_name)}"
NewSecretName(op, old_secret) ==
    op \o RemovePrefix(old_secret.name, PartOf(old_secret).value)

OldSecret == Head(members).content.json

SkipSecret ==
    /\ InLoop
    /\ MemberBranch(Head(members)) = "secret"
    /\ ~ExtractFails(Head(members))
    /\ ~Truthy(PartOf(OldSecret))
    /\ members' = Tail(members)
    /\ UNCHANGED <<cluster, fsys, args, phase, pc, operator_name, todo,
                   db_step, current_secret, log, warnings, exit_code, opened, pre, origin>>

RemapSecret ==
    /\ InLoop
    /\ MemberBranch(Head(members)) = "secret"
    /\ ~ExtractFails(Head(members))
    /\ Truthy(PartOf(OldSecret))
    /\ pc' = "get_current_secret"
    /\ UNCHANGED <<cluster, fsys, args, phase, operator_name, todo, members,
                   db_step, current_secret, log, warnings, exit_code, opened, pre, origin>>

WarnUnknown ==
    /\ InLoop
    /\ MemberBranch(Head(members)) = "unknown"
    /\ warnings' = Append(warnings, Head(members).name)
    /\ members' = Tail(members)
    /\ UNCHANGED <<cluster, fsys, args, phase, pc, operator_name, todo,
                   db_step, current_secret, log, exit_code, opened, pre, origin>>

SkipDirectory ==
    /\ InLoop
    /\ MemberBranch(Head(members)) = "skip"
    /\ members' = Tail(members)
    /\ UNCHANGED <<cluster, fsys, args, phase, pc, operator_name, todo,
                   db_step, current_secret, log, warnings, exit_code, opened, pre, origin>>

RestoreDone ==
    /\ pc = "restore_loop"
    /\ members = <<>>
    /\ pc' = "done"
    /\ UNCHANGED <<cluster, fsys, args, phase, operator_name, todo, members,
                   db_step, current_secret, log, warnings, exit_code, opened, pre, origin>>

(***************************************************************************)
(* Deployment.recreate_db                                                  *)
(***************************************************************************)
\* createdb issued before dropdb
recreate_db_creates_first == <<"createdb", "dropdb", "pg_restore">>

\* the database commands in the order recreate_db issues them
recreate_db == <<"dropdb", "createdb", "pg_restore">>

\* what the PostgreSQL utilities do: dropdb --force --if-exists always can
\* succeed; createdb needs the database not to exist; pg_restore -1 loads a
\* dump into the existing empty database in one transaction
DbFeasible(verb, database, dump) ==
    CASE verb = "dropdb" -> TRUE
      [] verb = "createdb" -> database = "absent"
      [] OTHER -> database = "empty" /\ dump.kind = "dump"

DbEffect(verb, database, dump) ==
    CASE verb = "dropdb" -> "absent"
      [] verb = "createdb" -> "empty"
      [] OTHER -> dump.dump

ExecDb ==
    /\ pc = "recreate_db"
    /\ LET verb == recreate_db[db_step]
           last == db_step = Len(recreate_db)
           dump == Head(members).content
       IN  \E rc \in Outcomes(DbFeasible(verb, db, dump)) :
             /\ run_k8s(verb, <<>>, rc, IF last THEN "restore_loop" ELSE "recreate_db")
             /\ db' = IF rc = 0 THEN DbEffect(verb, db, dump) ELSE db
             /\ db_step' = IF rc = 0 /\ ~last THEN db_step + 1 ELSE db_step
             /\ members' = IF rc = 0 /\ last THEN Tail(members) ELSE members
    /\ UNCHANGED <<awx, secrets, fsys, args, phase, operator_name, todo,
                   current_secret, warnings, opened, pre, origin>>

(***************************************************************************)
(* Deployment.recreate_secret                                              *)
(***************************************************************************)
\* applying the archived object under the new name
Merge_applies_old(current, old_secret) == [old_secret EXCEPT !.name = current.name]

\* current_secret["data"] = old_secret["data"]
Merge(current, old_secret) == [current EXCEPT !.data = old_secret.data]

\* json.loads(run_k8s("get", "secret", new_secret_name, "-o", "json")), then
\* old_secret["data"], which raises KeyError when the old secret has no data
GetCurrentSecret ==
    /\ pc = "get_current_secret"
    /\ LET new_secret_name == NewSecretName(operator_name, OldSecret)
       IN  \E rc \in Outcomes(new_secret_name \in DOMAIN secrets) :
             /\ run_k8s("get secret json", new_secret_name, rc,
                        IF OldSecret.data = NoData THEN "crashed" ELSE "apply")
             /\ current_secret' =
                  IF rc = 0 /\ OldSecret.data # NoData
                  THEN Merge(secrets[new_secret_name], OldSecret)
                  ELSE current_secret
    /\ UNCHANGED <<cluster, fsys, args, phase, operator_name, todo, members,
                   db_step, warnings, opened, pre, origin>>

\* kubectl apply -f -: creates the object when it is missing, replaces it otherwise
KubectlApply(secs, object) == Put(secs, object.name, object)

Apply ==
    /\ pc = "apply"
    /\ \E rc \in ExitCodes :
        /\ run_k8s("apply", current_secret.name, rc, "restore_loop")
        /\ secrets' = IF rc = 0 THEN KubectlApply(secrets, current_secret) ELSE secrets
        /\ members' = IF rc = 0 THEN Tail(members) ELSE members
    /\ UNCHANGED <<awx, db, fsys, args, phase, operator_name, todo,
                   db_step, current_secret, warnings, opened, pre, origin>>

(***************************************************************************)
(* The restore loop as a function: the cluster a restore of the members    *)
(* ends with when every command succeeds.                                  *)
(***************************************************************************)
MemberEffect(member, op, state) ==
    CASE MemberBranch(member) = "dump" ->
            [state EXCEPT !.db = member.content.dump]
      [] MemberBranch(member) = "secret" /\ Truthy(PartOf(member.content.json)) ->
            [state EXCEPT !.secrets =
                KubectlApply(@, Merge(@[NewSecretName(op, member.content.json)],
                                      member.content.json))]
      [] OTHER -> state

RECURSIVE RestoreAll(_, _, _)
RestoreAll(archive, op, state) ==
    IF archive = <<>> THEN state
    ELSE RestoreAll(Tail(archive), op, MemberEffect(Head(archive), op, state))

(***************************************************************************)
(* A second invocation: after a successful backup the deployment is        *)
(* re-bootstrapped (same operator name, same secrets, new contents) and    *)
(* the program is run again to restore the backup.                         *)
(***************************************************************************)
RestoreAfterBackup ==
    /\ phase = "first"
    /\ pc = "done"
    /\ command = "backup"
    /\ phase' = "second"
    /\ command' = "restore"
    /\ backup_name' \in {backup_name, TarName(backup_name)}
    /\ secrets' = Drifted(secrets)
    /\ db' \in {"D2", "absent"}
    /\ pre' = [secrets |-> secrets', db |-> db']
    /\ pc' = "get_awx"
    /\ operator_name' = <<>>
    /\ log' = <<>>
    /\ UNCHANGED <<awx, fsys, todo, members, db_step, current_secret,
                   warnings, exit_code, opened, origin>>

Next ==
    \/ GetAwx \/ GetDbPod \/ GetDbConfiguration
    \/ Mkdir \/ PgDump \/ GetSecrets \/ BackupSkipSecret \/ BackupGetSecret \/ BackupTar
    \/ OpenTar \/ ExtractCrash \/ RestoreDump \/ SkipSecret \/ RemapSecret
    \/ WarnUnknown \/ SkipDirectory \/ RestoreDone
    \/ ExecDb \/ GetCurrentSecret \/ Apply
    \/ RestoreAfterBackup

Spec == Init /\ [][Next]_vars

(***************************************************************************)
(* Properties                                                              *)
(***************************************************************************)
Last(seq) == seq[Len(seq)]

Failures == {i \in DOMAIN log : log[i].rc # 0}

\* C1: fail-fast. A command that returned a non-zero exit code is the last
\* command the process issued, the process has ended and its exit status is
\* that code; a process that ended with status 0 saw only commands that
\* returned 0.
C1_FailFast ==
    /\ \A i \in Failures :
          /\ i = Len(log)
          /\ pc = "exited"
          /\ ExitStatus = log[i].rc
    /\ (Terminated /\ ExitStatus = 0) => Failures = {}

\* a restore whose second database command failed with exit code 2
C1_Witness ==
    /\ pc = "exited"
    /\ Len(log) = 5
    /\ Last(log).verb = "createdb"
    /\ Last(log).rc = 2
    /\ ExitStatus = 2

\* the files of the working directory when the export loop has ended
WrittenFiles == dirs[backup_name]

ExportLoopEnded == command = "backup" /\ pc = "backup_loop" /\ todo = <<>>

\* C2: a successful backup has written exactly one file <secret>_secret.json,
\* holding the secret's JSON, for every secret of the namespace other than
\* <operator_name>-postgres-configuration, and none for that secret.
C2_ExportsAllButDbConfiguration ==
    ExportLoopEnded =>
        \A n \in DOMAIN secrets :
            IF n = DbConfigurationName(operator_name)
            THEN SecretFileName(n) \notin DOMAIN WrittenFiles
            ELSE /\ SecretFileName(n) \in DOMAIN WrittenFiles
                 /\ WrittenFiles[SecretFileName(n)] = JsonFile(secrets[n])

BackupSucceeded == phase = "first" /\ command = "backup" /\ pc = "done"

\* the secrets a backup fetched as JSON
Exported == {log[i].arg : i \in {j \in DOMAIN log : log[j].verb = "get secret json"}}

\* C3: after a successful backup the working directory is gone, <name>.tar
\* exists, and the only members restore treats as a dump, a secret or an
\* unknown file are backup.dump and one JSON file per exported secret.
C3_BackupLeavesOnlyTar ==
    BackupSucceeded =>
        /\ backup_name \notin DOMAIN dirs
        /\ TarName(backup_name) \in DOMAIN tars
        /\ LET tar == tars[TarName(backup_name)]
               handled == {i \in DOMAIN tar : MemberBranch(tar[i]) # "skip"}
               expected == {PathJoin(backup_name, DumpFileName)}
                             \cup {PathJoin(backup_name, SecretFileName(n)) : n \in Exported}
           IN  /\ \A i \in handled :
                     /\ tar[i].type = "REG"
                     /\ tar[i].name \in expected
                     /\ MemberBranch(tar[i]) =
                          IF tar[i].name = PathJoin(backup_name, DumpFileName)
                          THEN "dump" ELSE "secret"
               /\ Cardinality(handled) = Cardinality(expected)

RoundTripDone == phase = "second" /\ pc = "done"

\* the secrets a restore applied
Applied ==
    {log[i].arg : i \in {j \in DOMAIN log : log[j].verb = "apply" /\ log[j].rc = 0}}

WithoutData(secret) == [secret EXCEPT !.data = NoData]

\* C4: round trip. After a successful backup and a successful restore of it
\* into the re-bootstrapped deployment, the database holds what it held at
\* backup time, every secret restore applied has the data it had at backup
\* time, and every secret is otherwise as it was before the restore.
C4_RoundTrip ==
    RoundTripDone =>
        /\ db = origin.db
        /\ \A n \in Applied : secrets[n].data = origin.secrets[n].data
        /\ DOMAIN secrets = DOMAIN pre.secrets
        /\ \A n \in DOMAIN secrets : WithoutData(secrets[n]) = WithoutData(pre.secrets[n])

\* the target name of the archived secret being recreated
Target == operator_name \o RemovePrefix(OldSecret.name, OldSecret.labels.part_of)

SameProcess == phase' = phase

IsSecretFile(member) ==
    /\ MemberBranch(member) = "secret"
    /\ member.type = "REG"
    /\ member.content.kind = "json"

LacksPartOf(secret) ==
    \/ ~secret.labels.has_labels
    \/ ~secret.labels.has_part_of
    \/ secret.labels.part_of = <<>>

\* C6: for an archived secret without a part-of label (no labels, no such key,
\* or an empty value) restore issues no command, changes nothing in the
\* cluster, prints no warning and goes on to the next member.
C6_UnlabelledSkipped ==
    [][ (InLoop /\ IsSecretFile(Head(members)) /\ LacksPartOf(OldSecret)) =>
            /\ log' = log
            /\ secrets' = secrets
            /\ db' = db
            /\ warnings' = warnings
            /\ members' = Tail(members)
            /\ pc' = "restore_loop"
      ]_vars

\* a restore has ended after passing a secret whose part-of label is empty
C6_Witness ==
    /\ command = "restore"
    /\ pc = "done"
    /\ \E i \in DOMAIN tars[opened] :
          /\ IsSecretFile(tars[opened][i])
          /\ tars[opened][i].content.json.labels = PartOfLabel(<<>>)

\* C7: restore passes over every directory member, whatever its name, with no
\* error and no warning; a member that is neither a dump, a secret nor a
\* directory only adds a warning, and the loop goes on.
C7_DirectoriesSkipped ==
    [][ /\ (InLoop /\ Head(members).type = "DIR") =>
              /\ pc' = "restore_loop"
              /\ members' = Tail(members)
              /\ warnings' = warnings
              /\ log' = log
        /\ (InLoop /\ MemberBranch(Head(members)) = "unknown") =>
              /\ pc' = "restore_loop"
              /\ members' = Tail(members)
              /\ warnings' = Append(warnings, Head(members).name)
              /\ log' = log
      ]_vars

DbVerbs == {"dropdb", "createdb", "pg_restore"}

DbEntries == {i \in DOMAIN log : log[i].verb \in DbVerbs}

LastDbEntry == log[CHOOSE i \in DbEntries : \A j \in DbEntries : j <= i]

Dumps == {tars[opened][i].content.dump :
            i \in {j \in DOMAIN tars[opened] : tars[opened][j].content.kind = "dump"}}

\* C8: recreate_db issues dropdb, createdb and pg_restore in that order, each
\* after the previous one returned 0; when createdb or pg_restore failed the
\* database is absent or empty; once dropdb has succeeded the database holds
\* contents only after pg_restore succeeded, and then the dump's.
C8_RecreateDbOrder ==
    /\ \A i \in DbEntries :
          CASE log[i].verb = "dropdb" ->
                  (i - 1) \in DbEntries => log[i - 1] = Issued("pg_restore", <<>>, 0)
            [] log[i].verb = "createdb" -> log[i - 1] = Issued("dropdb", <<>>, 0)
            [] OTHER -> log[i - 1] = Issued("createdb", <<>>, 0)
    /\ (pc = "exited" /\ Last(log).verb \in {"createdb", "pg_restore"}) =>
          db \in {"absent", "empty"}
    /\ (\E i \in DbEntries : log[i] = Issued("dropdb", <<>>, 0)) =>
          IF LastDbEntry = Issued("pg_restore", <<>>, 0)
          THEN db \in Dumps
          ELSE db \in {"absent", "empty"}

\* pg_restore failed and left the freshly created database empty
C8_Witness ==
    /\ pc = "exited"
    /\ Last(log) = Issued("pg_restore", <<>>, 1)
    /\ db = "empty"
    /\ pre.db = "D1"

Orders(seq) == {[i \in DOMAIN seq |-> seq[p[i]]] : p \in Permutations(DOMAIN seq)}

\* C9: a restore in which every command succeeded ends in the cluster state
\* that a restore of any permutation of the archive's members ends in.
C9_AnyMemberOrder ==
    (command = "restore" /\ pc = "done") =>
        \A o \in Orders(tars[opened]) :
            RestoreAll(o, operator_name, pre) = [secrets |-> secrets, db |-> db]

Front(s) == SubSeq(s, 1, Len(s) - 1)

HasOpened == command = "restore" /\ opened # <<>>

====
